---- MODULE Spec2Model ----
(***************************************************************************)
(* A model of vibebot/rabbit_consumer.py: the RabbitConsumer life cycle    *)
(* (connect, channel, topology, consume, cancel, close, reconnect), its    *)
(* message dispatcher on_message, run()/stop(), and total_stop() of the    *)
(* thread variant.                                                         *)
(*                                                                         *)
(* The broker and the pika library are the environment.  What the model    *)
(* takes from them: a callback runs only while a thread drives the         *)
(* connection's ioloop, one callback at a time; a reply (declare-ok,       *)
(* bind-ok, cancel-ok, close-ok) arrives only on an open channel or        *)
(* connection; close() on a connection that is not open does nothing;      *)
(* after basic_cancel no further delivery is handed to on_message; an      *)
(* exception leaving a callback leaves ioloop.start().  The consumer is    *)
(* constructed with a statsd sink and an internal error queue.             *)
(***************************************************************************)
EXTENDS Naturals, Sequences, FiniteSets, TLC

VARIABLES
  closing,               \* self._closing
  stopped,               \* self.stopped
  connection,            \* self._connection: 0 = None, n = the n-th connection made
  channel,               \* self._channel: 0 = None, n = the channel of connection n
  consumer_tag,          \* self._consumer_tag: 0 = None, n = tag issued on channel n
  invocations,           \* self.invocations
  total_execution_time,  \* self.total_execution_time
  pc,                    \* where the consumer's thread is: in run(), in stop(), ...
  ioloop,                \* the ioloop of the current connection
  connState,             \* pika: state of the current connection
  chanState,             \* pika: state of the channel of the current connection
  rpc,                   \* pika: the topology request awaiting its reply
  cancelPending,         \* pika: Basic.Cancel sent, Basic.CancelOk awaited
  consumerActive,        \* pika: deliveries are handed to on_message
  timers,                \* pika: reconnect timeouts scheduled and not yet fired
  msgpc,                 \* on_message: position inside the handler
  msg,                   \* on_message: the delivery being handled (or the last one)
  resp,                  \* on_message: response_messages
  sent,                  \* on_message: how many of response_messages are published
  ev,                    \* what on_message did for msg, in order
  log,                   \* what the life cycle did on the current connection, in order
  closures,              \* on_connection_closed calls with closing unset
  reconnects,            \* connections opened by reconnect()
  deliveries,            \* deliveries handed to on_message
  internal_error_queue,  \* consumer ids put on the shared error queue
  stopAt,                \* what the machine was doing when stop() was called
  deadOps,               \* channel operations issued on a channel that was not open
  caller                 \* where the thread that called total_stop() is

fields  == <<closing, stopped, connection, channel, consumer_tag>>
stats   == <<invocations, total_execution_time>>
pika    == <<connState, chanState, rpc, cancelPending, consumerActive, timers>>
dispatch == <<msgpc, msg, resp, sent, ev, deliveries>>
counts  == <<closures, reconnects>>
vars == <<fields, stats, pc, ioloop, pika, dispatch, log, counts,
          internal_error_queue, stopAt, deadOps, caller>>

----------------------------------------------------------------------------
(* Bounds of the model. *)
MaxClosures == 3
MaxDeliveries == 2
MaxOut == 2
MaxInvocations == 101

(* Program constants. *)
DEFAULT_PREFETCH_COUNT == 1
StatsWindow == 100
ReconnectDelay == 5

(* The consumer's identity (constructor arguments). *)
bot_id == "bot"
exchange == "ex"
consumer_id == 7

queue_name == exchange \o "-" \o bot_id
error_queue_name == "error-" \o bot_id \o "-" \o exchange
statsd_prefix == exchange \o "."

----------------------------------------------------------------------------
(* Log entries: an operation and up to three arguments. *)
Op(name) == <<name, "", "", "">>
Op3(name, a, b, c) == <<name, a, b, c>>

Count(l, name) == Cardinality({i \in 1..Len(l) : l[i][1] = name})
Has(l, name) == \E i \in 1..Len(l) : l[i][1] = name
Before(l, a, b) == \A j \in 1..Len(l) : l[j][1] = b =>
                      \E i \in 1..(j-1) : l[i][1] = a

(* A callback runs while a thread drives the ioloop and no other callback
   is running. *)
LoopFree == /\ pc \in {"run_loop", "stop_loop"}
            /\ ioloop = "running"
            /\ msgpc = "idle"

NoMsg == [tag |-> 0, body |-> "", outcome |-> "pending"]

Init ==
  /\ closing = FALSE
  /\ stopped = FALSE
  /\ connection = 0
  /\ channel = 0
  /\ consumer_tag = 0
  /\ invocations = 0
  /\ total_execution_time = 0
  /\ pc = "new"
  /\ ioloop = "none"
  /\ connState = "none"
  /\ chanState = "none"
  /\ rpc = "none"
  /\ cancelPending = FALSE
  /\ consumerActive = FALSE
  /\ timers = <<>>
  /\ msgpc = "idle"
  /\ msg = NoMsg
  /\ resp = <<>>
  /\ sent = 0
  /\ ev = <<>>
  /\ log = <<>>
  /\ closures = 0
  /\ reconnects = 0
  /\ deliveries = 0
  /\ internal_error_queue = <<>>
  /\ stopAt = "none"
  /\ deadOps = {}
  /\ caller = "idle"

----------------------------------------------------------------------------
(* connect(): a new SelectConnection; pika starts opening it. *)
connect ==
  /\ connection' = connection + 1
  /\ connState' = "opening"
  /\ chanState' = "none"
  /\ rpc' = "none"
  /\ cancelPending' = FALSE
  /\ consumerActive' = FALSE
  /\ log' = <<Op("connect")>>

(* run(): connect, then drive the connection's ioloop. *)
run ==
  /\ pc = "new"
  /\ connect
  /\ ioloop' = "running"
  /\ pc' = "run_loop"
  /\ UNCHANGED <<closing, stopped, channel, consumer_tag, stats, timers,
                 dispatch, counts, internal_error_queue, stopAt, deadOps, caller>>

(* open_channel(): Channel.Open on the connection. *)
open_channel(l) ==
  /\ chanState' = "opening"
  /\ log' = l \o <<Op("channel")>>

(* on_connection_open: register the close callback, open a channel. *)
on_connection_open ==
  /\ LoopFree
  /\ connState = "opening"
  /\ connState' = "open"
  /\ open_channel(log \o <<Op("on_connection_open"),
                           Op("add_on_close_callback")>>)
  /\ UNCHANGED <<fields, stats, pc, ioloop, rpc, cancelPending, consumerActive,
                 timers, dispatch, counts, internal_error_queue, stopAt, deadOps, caller>>

(* setup_queues_and_bindings(): passive check of the exchange. *)
setup_queues_and_bindings(l) ==
  /\ rpc' = "exchange_declare"
  /\ log' = l \o <<Op3("exchange_declare", exchange, "passive", "")>>

(* on_channel_open leaving the prefetch count at the broker's default. *)
on_channel_open_unlimited ==
  /\ LoopFree
  /\ connState = "open"
  /\ chanState = "opening"
  /\ chanState' = "open"
  /\ channel' = connection
  /\ setup_queues_and_bindings(log \o
        <<Op("on_channel_open"), Op("channel_add_on_close_callback")>>)
  /\ UNCHANGED <<closing, stopped, connection, consumer_tag, stats, pc, ioloop,
                 connState, cancelPending, consumerActive, timers, dispatch,
                 counts, internal_error_queue, stopAt, deadOps, caller>>

(* on_channel_open: keep the channel, set the prefetch count, register the
   channel close callback, start the topology. *)
on_channel_open ==
  /\ LoopFree
  /\ connState = "open"
  /\ chanState = "opening"
  /\ chanState' = "open"
  /\ channel' = connection
  /\ setup_queues_and_bindings(log \o
        <<Op("on_channel_open"),
          Op3("basic_qos", ToString(DEFAULT_PREFETCH_COUNT), "", ""),
          Op("channel_add_on_close_callback")>>)
  /\ UNCHANGED <<closing, stopped, connection, consumer_tag, stats, pc, ioloop,
                 connState, cancelPending, consumerActive, timers, dispatch,
                 counts, internal_error_queue, stopAt, deadOps, caller>>

(* A reply to the pending topology request arrives on the open channel. *)
Reply(request) ==
  /\ LoopFree
  /\ connState = "open"
  /\ chanState = "open"
  /\ rpc = request

(* setup_queue: declare the consumer's queue. *)
setup_queue ==
  /\ Reply("exchange_declare")
  /\ rpc' = "queue_declare"
  /\ log' = log \o <<Op("setup_queue"),
                     Op3("queue_declare", queue_name, "durable", "not exclusive")>>
  /\ UNCHANGED <<fields, stats, pc, ioloop, connState, chanState, cancelPending,
                 consumerActive, timers, dispatch, counts, internal_error_queue,
                 stopAt, deadOps, caller>>

(* on_queue_declareok: bind the queue to the exchange, routing key "". *)
on_queue_declareok ==
  /\ Reply("queue_declare")
  /\ rpc' = "queue_bind"
  /\ log' = log \o <<Op("on_queue_declareok"),
                     Op3("queue_bind", queue_name, exchange, "")>>
  /\ UNCHANGED <<fields, stats, pc, ioloop, connState, chanState, cancelPending,
                 consumerActive, timers, dispatch, counts, internal_error_queue,
                 stopAt, deadOps, caller>>

(* on_bindok starting to consume at once, as pika's example consumer does,
   without declaring the error queue. *)
on_bindok_consume ==
  /\ Reply("queue_bind")
  /\ rpc' = "none"
  /\ consumer_tag' = channel
  /\ consumerActive' = TRUE
  /\ log' = log \o <<Op("on_bindok"), Op("add_on_cancel_callback"),
                     Op3("basic_consume", queue_name, "", "")>>
  /\ UNCHANGED <<closing, stopped, connection, channel, stats, pc, ioloop,
                 connState, chanState, cancelPending, timers, dispatch, counts,
                 internal_error_queue, stopAt, deadOps, caller>>

(* on_bindok -> setup_error_queue: declare the error queue. *)
on_bindok ==
  /\ Reply("queue_bind")
  /\ rpc' = "error_queue_declare"
  /\ log' = log \o <<Op("on_bindok"),
                     Op3("error_queue_declare", error_queue_name, "durable",
                         "not exclusive")>>
  /\ UNCHANGED <<fields, stats, pc, ioloop, connState, chanState, cancelPending,
                 consumerActive, timers, dispatch, counts, internal_error_queue,
                 stopAt, deadOps, caller>>

(* start_consuming(): register the cancel callback, Basic.Consume; the
   consumer tag is kept. *)
start_consuming(l) ==
  /\ consumer_tag' = channel
  /\ consumerActive' = TRUE
  /\ log' = l \o <<Op("add_on_cancel_callback"),
                   Op3("basic_consume", queue_name, "", "")>>

(* on_error_queue_declareok: start consuming. *)
on_error_queue_declareok ==
  /\ Reply("error_queue_declare")
  /\ rpc' = "none"
  /\ start_consuming(log \o <<Op("on_error_queue_declareok")>>)
  /\ UNCHANGED <<closing, stopped, connection, channel, stats, pc, ioloop,
                 connState, chanState, cancelPending, timers, dispatch, counts,
                 internal_error_queue, stopAt, deadOps, caller>>

----------------------------------------------------------------------------
(* on_channel_closed opening a replacement channel on the connection. *)
on_channel_closed_reopen(l) ==
  /\ log' = l \o <<Op("on_channel_closed"), Op("channel")>>
  /\ connState' = connState

(* on_channel_closed: close the whole connection.  close() on a connection
   that is not open does nothing. *)
on_channel_closed(l) ==
  /\ log' = l \o <<Op("on_channel_closed"), Op("connection_close")>>
  /\ connState' = IF connState = "open" THEN "closing" ELSE connState

(* The broker closes the channel (a protocol fault, a failed declare). *)
channel_fault ==
  /\ LoopFree
  /\ connState = "open"
  /\ chanState = "open"
  /\ closures < MaxClosures
  /\ chanState' = "closed"
  /\ rpc' = "none"
  /\ cancelPending' = FALSE
  /\ consumerActive' = FALSE
  /\ on_channel_closed(log)
  /\ UNCHANGED <<fields, stats, pc, ioloop, timers, dispatch, counts,
                 internal_error_queue, stopAt, deadOps, caller>>

(* Channel.CloseOk: the channel the consumer asked to close is closed. *)
channel_close_ok ==
  /\ LoopFree
  /\ connState = "open"
  /\ chanState = "closing"
  /\ chanState' = "closed"
  /\ on_channel_closed(log)
  /\ UNCHANGED <<fields, stats, pc, ioloop, rpc, cancelPending, consumerActive,
                 timers, dispatch, counts, internal_error_queue, stopAt, deadOps, caller>>

(* on_connection_closed: forget the channel; when closing stop the ioloop,
   otherwise schedule reconnect. *)
on_connection_closed(l) ==
  /\ channel' = 0
  /\ connState' = "closed"
  /\ chanState' = IF chanState = "none" THEN "none" ELSE "closed"
  /\ rpc' = "none"
  /\ cancelPending' = FALSE
  /\ consumerActive' = FALSE
  /\ IF closing
       THEN /\ ioloop' = "halted"
            /\ log' = l \o <<Op("on_connection_closed"), Op("ioloop_stop")>>
            /\ UNCHANGED <<timers, closures>>
       ELSE /\ timers' = Append(timers, [delay |-> ReconnectDelay,
                                         callback |-> "reconnect"])
            /\ closures' = closures + 1
            /\ log' = l \o <<Op("on_connection_closed"),
                             Op3("add_timeout", ToString(ReconnectDelay),
                                 "reconnect", "")>>
            /\ UNCHANGED ioloop

(* The connection is lost or closed by the broker.  pika first reports the
   closure to the channel, whose callback finds the connection closed. *)
connection_lost ==
  /\ LoopFree
  /\ connState = "open"
  /\ closures < MaxClosures
  /\ on_connection_closed(
       IF chanState \in {"open", "closing"}
         THEN log \o <<Op("on_channel_closed"), Op("connection_close")>>
         ELSE log)
  /\ UNCHANGED <<closing, stopped, connection, consumer_tag, stats, pc,
                 dispatch, reconnects, internal_error_queue, stopAt, deadOps, caller>>

(* Connection.CloseOk: the connection the consumer asked to close is closed. *)
connection_close_ok ==
  /\ LoopFree
  /\ connState = "closing"
  /\ on_connection_closed(log)
  /\ UNCHANGED <<closing, stopped, connection, consumer_tag, stats, pc,
                 dispatch, reconnects, internal_error_queue, stopAt, deadOps, caller>>

(* reconnect called at once, with its timeout left scheduled. *)
reconnect_twice ==
  /\ LoopFree
  /\ timers # <<>>
  /\ Head(timers).callback = "reconnect"
  /\ connState = "closed"
  /\ ~closing
  /\ connect
  /\ reconnects' = reconnects + 1
  /\ ioloop' = "running"
  /\ UNCHANGED <<closing, stopped, channel, consumer_tag, stats, pc, dispatch,
                 timers, closures, internal_error_queue, stopAt, deadOps, caller>>

(* reconnect connecting again whether or not the consumer is closing. *)
reconnect_unguarded ==
  /\ LoopFree
  /\ timers # <<>>
  /\ Head(timers).callback = "reconnect"
  /\ timers' = Tail(timers)
  /\ connect
  /\ reconnects' = reconnects + 1
  /\ ioloop' = "running"
  /\ UNCHANGED <<closing, stopped, channel, consumer_tag, stats, pc, dispatch,
                 closures, internal_error_queue, stopAt, deadOps, caller>>

(* reconnect: the timeout fires on the old connection's ioloop.  Stop that
   ioloop; unless closing, make a new connection and start its ioloop. *)
reconnect ==
  /\ LoopFree
  /\ timers # <<>>
  /\ Head(timers).callback = "reconnect"
  /\ timers' = Tail(timers)
  /\ IF ~closing
       THEN /\ connect
            /\ reconnects' = reconnects + 1
            /\ ioloop' = "running"
       ELSE /\ ioloop' = "halted"
            /\ log' = log \o <<Op("reconnect"), Op("ioloop_stop")>>
            /\ UNCHANGED <<connection, connState, chanState, rpc, cancelPending,
                           consumerActive, reconnects>>
  /\ UNCHANGED <<closing, stopped, channel, consumer_tag, stats, pc, dispatch,
                 closures, internal_error_queue, stopAt, deadOps, caller>>

(* on_consumer_cancelled only taking note of the cancel. *)
on_consumer_cancelled_ignore ==
  /\ LoopFree
  /\ connState = "open"
  /\ chanState = "open"
  /\ consumerActive
  /\ closures < MaxClosures
  /\ consumerActive' = FALSE
  /\ cancelPending' = FALSE
  /\ log' = log \o <<Op("on_consumer_cancelled")>>
  /\ UNCHANGED <<fields, stats, pc, ioloop, connState, chanState, rpc, timers,
                 dispatch, counts, internal_error_queue, stopAt, deadOps, caller>>

(* on_consumer_cancelled: the broker cancelled the consumer; close the
   channel if one is held. *)
on_consumer_cancelled ==
  /\ LoopFree
  /\ connState = "open"
  /\ chanState = "open"
  /\ consumerActive
  /\ closures < MaxClosures
  /\ consumerActive' = FALSE
  /\ cancelPending' = FALSE
  /\ IF channel # 0
       THEN /\ chanState' = "closing"
            /\ log' = log \o <<Op("on_consumer_cancelled"), Op("channel_close")>>
       ELSE /\ log' = log \o <<Op("on_consumer_cancelled")>>
            /\ UNCHANGED chanState
  /\ UNCHANGED <<fields, stats, pc, ioloop, connState, rpc, timers, dispatch,
                 counts, internal_error_queue, stopAt, deadOps, caller>>

(* close_channel(): Channel.Close. *)
close_channel(l) ==
  /\ chanState' = "closing"
  /\ log' = l \o <<Op("channel_close")>>

(* on_cancelok leaving the channel open. *)
on_cancelok_idle ==
  /\ LoopFree
  /\ connState = "open"
  /\ chanState = "open"
  /\ cancelPending
  /\ cancelPending' = FALSE
  /\ log' = log \o <<Op("on_cancelok")>>
  /\ UNCHANGED <<fields, stats, pc, ioloop, connState, chanState, rpc,
                 consumerActive, timers, dispatch, counts, internal_error_queue,
                 stopAt, deadOps, caller>>

(* on_cancelok: the broker acknowledged the cancel; close the channel. *)
on_cancelok ==
  /\ LoopFree
  /\ connState = "open"
  /\ chanState = "open"
  /\ cancelPending
  /\ cancelPending' = FALSE
  /\ close_channel(log \o <<Op("on_cancelok")>>)
  /\ UNCHANGED <<fields, stats, pc, ioloop, connState, rpc, consumerActive,
                 timers, dispatch, counts, internal_error_queue, stopAt, deadOps, caller>>

----------------------------------------------------------------------------
(* Message bodies: a JSON document, text that is no JSON, bytes that are
   no UTF-8. *)
Bodies == {"{}", "{", "<ff>"}
ValidUtf8(body) == body \in {"{}", "{"}       \* body.decode('utf-8') returns
ValidJson(body) == body \in {"{}"}            \* json.loads(body) returns

(* Outbound messages: dicts with a body and optional exchange and queue. *)
Absent == "<absent>"
Messages ==
  { [exchange |-> Absent, queue |-> Absent, body |-> "r1"],
    [exchange |-> "ex2",  queue |-> "q2",   body |-> "r2"],
    [exchange |-> "ex3",  queue |-> Absent, body |-> "r3"],
    [exchange |-> Absent, queue |-> "q4",   body |-> "r4"] }

(* An element of the handler's result that is no dict (a string, say): it
   has no get method. *)
NotADict == [exchange |-> "<no get>", queue |-> "<no get>", body |-> "<str>"]
IsDict(message) == message # NotADict

SeqsUpTo(S, n) == UNION {[1..k -> S] : k \in 0..n}

(* What callback_func can do: raise, return None, return a sequence. *)
HandlerOutcomes ==
  {[kind |-> "raise", msgs |-> <<>>], [kind |-> "none", msgs |-> <<>>]}
    \cup {[kind |-> "seq", msgs |-> q] : q \in SeqsUpTo(Messages, MaxOut)}

(* What callback_func can also do: return a sequence with an element that
   is no dict. *)
HandlerOutcomesAny ==
  HandlerOutcomes
    \cup {[kind |-> "seq", msgs |-> q] :
            q \in SeqsUpTo(Messages \cup {NotADict}, MaxOut)}

(* Measured handling times, in milliseconds. *)
ExecTimes == {0, 1}

(* A lookup that falls back to the default as soon as either routing key
   of the message is missing. *)
Get_coupled(message, key, default) ==
  IF message.exchange = Absent \/ message.queue = Absent
    THEN default ELSE message[key]

(* dict.get(key, default) *)
Get(message, key, default) ==
  IF message[key] = Absent THEN default ELSE message[key]

(* What on_message does, as events. *)
Incr(name) == [op |-> "incr", exchange |-> "", routing_key |-> statsd_prefix \o name,
               body |-> "", tag |-> 0]
Timing(name) == [op |-> "timing", exchange |-> "", routing_key |-> statsd_prefix \o name,
                 body |-> "", tag |-> 0]
Step(name) == [op |-> name, exchange |-> "", routing_key |-> "", body |-> "", tag |-> 0]
Logged(name, value) ==
  [op |-> name, exchange |-> "", routing_key |-> "", body |-> "", tag |-> value]
basic_ack(delivery_tag) ==
  [op |-> "basic_ack", exchange |-> "", routing_key |-> "", body |-> "",
   tag |-> delivery_tag]
basic_publish(ex, key, body) ==
  [op |-> "basic_publish", exchange |-> ex, routing_key |-> key, body |-> body,
   tag |-> 0]

(* acknowledge_message(): Basic.Ack for the delivery tag. *)
acknowledge_message(delivery_tag) == <<basic_ack(delivery_tag)>>

(* run() swallowing the exception without reporting it. *)
run_except_silent ==
  /\ ioloop' = "abandoned"
  /\ pc' = IF pc = "run_loop" THEN "run_failed" ELSE "stop_failed"
  /\ UNCHANGED internal_error_queue

(* An exception leaves the ioloop: run() reports the consumer id on the
   internal error queue; out of stop() it is not caught. *)
run_except ==
  /\ ioloop' = "abandoned"
  /\ IF pc = "run_loop"
       THEN /\ pc' = "run_failed"
            /\ internal_error_queue' = Append(internal_error_queue, consumer_id)
       ELSE /\ pc' = "stop_failed"
            /\ UNCHANGED internal_error_queue

(* on_message, first part: count the invocation, log the body as UTF-8 text,
   count the receipt, acknowledge.  The broker delivers one of bodies, at
   most limit deliveries in all. *)
on_message_receive_from(bodies, limit) ==
  /\ LoopFree
  /\ connState = "open"
  /\ chanState = "open"
  /\ consumerActive
  /\ deliveries < limit
  /\ \E body \in bodies :
       /\ msg' = [tag |-> deliveries + 1, body |-> body, outcome |-> "pending"]
       /\ IF ValidUtf8(body)
            THEN /\ ev' = <<Incr("message.receive")>>
                            \o acknowledge_message(deliveries + 1)
                 /\ msgpc' = "acked"
                 /\ UNCHANGED <<pc, ioloop, internal_error_queue>>
            ELSE /\ ev' = <<Step("UnicodeDecodeError")>>
                 /\ msgpc' = "idle"
                 /\ run_except
  /\ deliveries' = deliveries + 1
  /\ invocations' = invocations + 1
  /\ resp' = <<>>
  /\ sent' = 0
  /\ UNCHANGED <<fields, total_execution_time, pika, log, counts, stopAt, deadOps, caller>>

on_message_receive == on_message_receive_from(Bodies, MaxDeliveries)

(* A long run of deliveries of text that is no JSON. *)
on_message_receive_text == on_message_receive_from({"{"}, MaxInvocations)

(* The except clause without its error metric. *)
error_route_unmetered(body) ==
  <<basic_publish("", error_queue_name, body)>>

(* The except clause of on_message: count the error, publish the raw body
   to the error queue through the default exchange. *)
error_route(body) ==
  <<Incr("message.error"), basic_publish("", error_queue_name, body)>>

(* on_message, second part: decode, call the handler, which does one of
   outcomes. *)
on_message_handle_from(outcomes) ==
  /\ pc \in {"run_loop", "stop_loop"}
  /\ msgpc = "acked"
  /\ IF ~ValidJson(msg.body)
       THEN /\ ev' = ev \o <<Step("json.loads")>> \o error_route(msg.body)
            /\ msg' = [msg EXCEPT !.outcome = "ValueError"]
            /\ msgpc' = "routed"
            /\ UNCHANGED resp
       ELSE \E r \in outcomes :
              /\ msg' = [msg EXCEPT !.outcome = r.kind]
              /\ IF r.kind = "raise"
                   THEN /\ ev' = ev \o <<Step("json.loads"), Step("callback_func")>>
                                   \o error_route(msg.body)
                        /\ msgpc' = "routed"
                        /\ UNCHANGED resp
                   ELSE /\ ev' = ev \o <<Step("json.loads"), Step("callback_func")>>
                        /\ resp' = r.msgs
                        /\ msgpc' = "publishing"
  /\ UNCHANGED <<fields, stats, pc, ioloop, pika, sent, deliveries, log, counts,
                 internal_error_queue, stopAt, deadOps, caller>>

on_message_handle == on_message_handle_from(HandlerOutcomes)

(* A handler that may return elements that are no dicts. *)
on_message_handle_any == on_message_handle_from(HandlerOutcomesAny)

(* The publish loop walking response_messages from its end. *)
on_message_publish_reversed ==
  /\ pc \in {"run_loop", "stop_loop"}
  /\ msgpc = "publishing"
  /\ sent < Len(resp)
  /\ LET message == resp[Len(resp) - sent] IN
       ev' = ev \o <<basic_publish(Get(message, "exchange", exchange),
                                   Get(message, "queue", queue_name),
                                   message.body),
                     Incr("message.publish")>>
  /\ sent' = sent + 1
  /\ UNCHANGED <<fields, stats, pc, ioloop, pika, msgpc, msg, resp, deliveries,
                 log, counts, internal_error_queue, stopAt, deadOps, caller>>

(* on_message, the publish loop: one response message and its metric.  An
   element without get raises AttributeError inside the try block: the
   except clause routes the body to the error queue and the loop is over. *)
on_message_publish ==
  /\ pc \in {"run_loop", "stop_loop"}
  /\ msgpc = "publishing"
  /\ sent < Len(resp)
  /\ LET message == resp[sent + 1] IN
       IF IsDict(message)
         THEN /\ ev' = ev \o <<basic_publish(Get(message, "exchange", exchange),
                                             Get(message, "queue", queue_name),
                                             message.body),
                               Incr("message.publish")>>
              /\ sent' = sent + 1
              /\ UNCHANGED msgpc
         ELSE /\ ev' = ev \o <<Step("AttributeError")>> \o error_route(msg.body)
              /\ msgpc' = "routed"
              /\ UNCHANGED sent
  /\ UNCHANGED <<fields, stats, pc, ioloop, pika, msg, resp, deliveries,
                 log, counts, internal_error_queue, stopAt, deadOps, caller>>

(* The statistics logging the average without resetting the total. *)
on_message_finish_keep ==
  /\ pc \in {"run_loop", "stop_loop"}
  /\ \/ msgpc = "publishing" /\ sent = Len(resp)
     \/ msgpc = "routed"
  /\ \E exec_time_millis \in ExecTimes :
       LET total == total_execution_time + exec_time_millis IN
         /\ total_execution_time' = total
         /\ ev' = ev \o <<Logged("handling_time", exec_time_millis)>>
                    \o (IF invocations % StatsWindow = 0
                          THEN <<Logged("average", total \div StatsWindow)>>
                          ELSE <<>>)
                    \o <<Timing("message.process.time")>>
  /\ msgpc' = "idle"
  /\ UNCHANGED <<fields, invocations, pc, ioloop, pika, msg, resp, sent,
                 deliveries, log, counts, internal_error_queue, stopAt, deadOps, caller>>

(* on_message, last part: the rolling statistics and the timing metric.
   The handling time is added and logged; at every StatsWindow-th
   invocation the average is logged and the total reset. *)
on_message_finish ==
  /\ pc \in {"run_loop", "stop_loop"}
  /\ \/ msgpc = "publishing" /\ sent = Len(resp)
     \/ msgpc = "routed"
  /\ \E exec_time_millis \in ExecTimes :
       LET total == total_execution_time + exec_time_millis IN
         IF invocations % StatsWindow = 0
           THEN /\ total_execution_time' = 0
                /\ ev' = ev \o <<Logged("handling_time", exec_time_millis),
                                 Logged("average", total \div StatsWindow),
                                 Timing("message.process.time")>>
           ELSE /\ total_execution_time' = total
                /\ ev' = ev \o <<Logged("handling_time", exec_time_millis),
                                 Timing("message.process.time")>>
  /\ msgpc' = "idle"
  /\ UNCHANGED <<fields, invocations, pc, ioloop, pika, msg, resp, sent,
                 deliveries, log, counts, internal_error_queue, stopAt, deadOps, caller>>

----------------------------------------------------------------------------
(* stop_consuming(): Basic.Cancel for the kept consumer tag, if a channel
   is held. *)
stop_consuming ==
  IF channel # 0
    THEN /\ log' = log \o <<Op3("basic_cancel", ToString(consumer_tag), "", "")>>
         /\ cancelPending' = (chanState = "open" /\ consumerActive)
         /\ consumerActive' = FALSE
         /\ deadOps' = IF chanState = "open" THEN deadOps
                       ELSE deadOps \cup {"basic_cancel"}
    ELSE UNCHANGED <<log, cancelPending, consumerActive, deadOps>>

(* What the machine is doing. *)
Consuming == connState = "open" /\ chanState = "open" /\ consumerActive

(* stop(): set closing, cancel the consumer, drive the ioloop until it is
   stopped. *)
stop ==
  /\ closing' = TRUE
  /\ stop_consuming
  /\ IF connection # 0
       THEN /\ ioloop' = "running"
            /\ pc' = "stop_loop"
            /\ UNCHANGED stopped
       ELSE /\ stopped' = TRUE
            /\ pc' = "stopped"
            /\ UNCHANGED ioloop

(* What the machine is doing at the moment stop() is called. *)
StopPoint ==
  IF msgpc # "idle" THEN msgpc
  ELSE IF Consuming THEN "consuming"
  ELSE IF connState = "opening" \/ chanState = "opening" THEN "opening"
  ELSE IF timers # <<>> THEN "reconnecting"
  ELSE "other"

(* run(), except (KeyboardInterrupt, SystemExit): the interrupt unwinds
   whatever the ioloop was running, then stop() is called. *)
interrupt ==
  /\ pc = "run_loop"
  /\ ioloop = "running"
  /\ stopAt' = StopPoint
  /\ msgpc' = "idle"
  /\ ev' = IF msgpc # "idle" THEN ev \o <<Step("KeyboardInterrupt")>> ELSE ev
  /\ stop
  /\ UNCHANGED <<connection, channel, consumer_tag, stats, connState, chanState,
                 rpc, timers, msg, resp, sent, deliveries, counts,
                 internal_error_queue, caller>>

(* stop(), after ioloop.start() returned. *)
stop_return ==
  /\ pc = "stop_loop"
  /\ ioloop = "halted"
  /\ stopped' = TRUE
  /\ pc' = "stopped"
  /\ UNCHANGED <<closing, connection, channel, consumer_tag, stats, ioloop, pika,
                 dispatch, log, counts, internal_error_queue, stopAt, deadOps, caller>>

----------------------------------------------------------------------------
(* RabbitConsumerThread.total_stop(): stop() runs on the thread of the
   caller, while run() drives the ioloop on the consumer's own thread: the
   caller sets closing, cancels on the channel and enters ioloop.start()
   itself. *)
total_stop ==
  /\ caller = "idle"
  /\ pc \in {"new", "run_loop"}
  /\ stopAt' = StopPoint
  /\ closing' = TRUE
  /\ stop_consuming
  /\ IF connection # 0
       THEN /\ caller' = "stop_loop"
            /\ UNCHANGED stopped
       ELSE /\ caller' = "stopped"
            /\ stopped' = TRUE
  /\ UNCHANGED <<connection, channel, consumer_tag, stats, pc, ioloop, connState,
                 chanState, rpc, timers, dispatch, counts, internal_error_queue>>

(* total_stop(), after ioloop.start() returned to the caller. *)
caller_return ==
  /\ caller = "stop_loop"
  /\ ioloop = "halted"
  /\ stopped' = TRUE
  /\ caller' = "stopped"
  /\ UNCHANGED <<closing, connection, channel, consumer_tag, stats, pc, ioloop,
                 pika, dispatch, log, counts, internal_error_queue, stopAt, deadOps>>

(* run() of the thread, after ioloop.start() returned: the thread ends. *)
run_return ==
  /\ pc = "run_loop"
  /\ ioloop = "halted"
  /\ pc' = "returned"
  /\ UNCHANGED <<fields, stats, ioloop, pika, dispatch, log, counts,
                 internal_error_queue, stopAt, deadOps, caller>>

----------------------------------------------------------------------------
Next ==
  \/ run
  \/ on_connection_open
  \/ on_channel_open
  \/ setup_queue
  \/ on_queue_declareok
  \/ on_bindok
  \/ on_error_queue_declareok
  \/ on_message_receive
  \/ on_message_handle
  \/ on_message_publish
  \/ on_message_finish
  \/ on_consumer_cancelled
  \/ channel_fault
  \/ channel_close_ok
  \/ connection_lost
  \/ connection_close_ok
  \/ reconnect
  \/ interrupt
  \/ on_cancelok
  \/ stop_return

Spec == Init /\ [][Next]_vars

(* One connection that stays up, and a long run of deliveries. *)
StatsNext ==
  \/ run
  \/ on_connection_open
  \/ on_channel_open
  \/ setup_queue
  \/ on_queue_declareok
  \/ on_bindok
  \/ on_error_queue_declareok
  \/ on_message_receive_text
  \/ on_message_handle
  \/ on_message_finish

StatsSpec == Init /\ [][StatsNext]_vars

(* One connection that stays up, and a handler whose result may hold
   elements that are no dicts. *)
DispatchNext ==
  \/ run
  \/ on_connection_open
  \/ on_channel_open
  \/ setup_queue
  \/ on_queue_declareok
  \/ on_bindok
  \/ on_error_queue_declareok
  \/ on_message_receive
  \/ on_message_handle_any
  \/ on_message_publish
  \/ on_message_finish

DispatchSpec == Init /\ [][DispatchNext]_vars

(* The consumer as a RabbitConsumerThread: run() on a thread of its own,
   which no KeyboardInterrupt reaches, and total_stop() called from another
   thread.  The callbacks are those run()'s thread runs. *)
ThreadNext ==
  \/ run
  \/ on_connection_open
  \/ on_channel_open
  \/ setup_queue
  \/ on_queue_declareok
  \/ on_bindok
  \/ on_error_queue_declareok
  \/ on_message_receive
  \/ on_message_handle
  \/ on_message_publish
  \/ on_message_finish
  \/ on_consumer_cancelled
  \/ channel_fault
  \/ channel_close_ok
  \/ connection_lost
  \/ connection_close_ok
  \/ reconnect
  \/ on_cancelok
  \/ total_stop
  \/ caller_return
  \/ run_return

ThreadSpec == Init /\ [][ThreadNext]_vars

(* The broker answers every request, a scheduled timeout fires, and a
   thread that can go on does. *)
Fairness ==
  /\ WF_vars(on_cancelok)
  /\ WF_vars(channel_close_ok)
  /\ WF_vars(connection_close_ok)
  /\ WF_vars(reconnect)
  /\ WF_vars(stop_return)

LiveSpec == Init /\ [][Next]_vars /\ Fairness

----------------------------------------------------------------------------
(* The events of the delivery being handled. *)
At(op) == {i \in 1..Len(ev) : ev[i].op = op}
Acks == {i \in At("basic_ack") : ev[i].tag = msg.tag}
Metric(name) == {i \in 1..Len(ev) : ev[i] = Incr(name)}
IsPublish(e) == e.op = "basic_publish"
IsErrorPublish(e) ==
  IsPublish(e) /\ e.exchange = "" /\ e.routing_key = error_queue_name
ErrorPublishes == {i \in 1..Len(ev) : IsErrorPublish(ev[i])}
Publishes == SelectSeq(ev, LAMBDA e : IsPublish(e) /\ ~IsErrorPublish(e))
Handed == msg.tag # 0
Returned == msg.outcome \in {"none", "seq"}
(* on_message is over for msg, by returning or by raising, uninterrupted. *)
Ended == Handed /\ msgpc = "idle" /\ At("KeyboardInterrupt") = {}
Failed == Ended /\ (~ValidJson(msg.body) \/ msg.outcome = "raise")
Timed == At("timing") # {}
Crashed == pc \in {"run_failed", "stop_failed"}

(* C1: every delivery handed to on_message is acknowledged exactly once,
   before the JSON decode and before the handler, and is never rejected. *)
C1_AckOnceBeforeProcessing ==
  Handed =>
    /\ Cardinality(Acks) = 1
    /\ \A j \in At("json.loads") \cup At("callback_func") :
         \E i \in Acks : i < j
    /\ At("basic_reject") \cup At("basic_nack") = {}

(* C2: when the body decodes and the handler returns N messages (None is
   N = 0), the publishes are those N messages in the returned order, each
   followed by one publish metric, all of them before the timing metric,
   and nothing goes to the error queue. *)
C2_PublishesInReturnOrder ==
  (Handed /\ Returned) =>
    /\ Len(Publishes) = sent
    /\ sent <= Len(resp)
    /\ \A i \in 1..Len(Publishes) : Publishes[i].body = resp[i].body
    /\ \A i \in At("basic_publish") :
         i < Len(ev) /\ ev[i + 1] = Incr("message.publish")
    /\ Cardinality(Metric("message.publish")) = Len(Publishes)
    /\ Timed => /\ Len(Publishes) = Len(resp)
                /\ \A t \in At("timing") : \A i \in At("basic_publish") : i < t
    /\ ErrorPublishes = {}
    /\ msg.outcome = "none" => resp = <<>>

C2_Witness ==
  /\ msg.outcome = "seq" /\ Len(resp) = 2 /\ resp[1] # resp[2]
  /\ Timed /\ msgpc = "idle"

(* C3: a delivery whose decode fails or whose handler raises has its raw
   body published exactly once to error-<botId>-<exchange> through the
   default exchange. *)
C3_RawBodyToErrorQueue ==
  Failed =>
    /\ Cardinality(ErrorPublishes) = 1
    /\ \A i \in ErrorPublishes : ev[i].body = msg.body
    /\ error_queue_name = "error-bot-ex"

(* C4: a delivery whose handler raises counts message.error exactly once
   and message.publish not at all. *)
C4_ErrorMetricOnce ==
  (Handed /\ msg.outcome = "raise") =>
    /\ Cardinality(Metric("message.error")) = 1
    /\ Metric("message.publish") = {}

C4_Witness ==
  msg.outcome = "raise" /\ Timed /\ msgpc = "idle" /\ deliveries = 2

(* C5: a decode failure or a handler exception is contained: no exception
   leaves on_message, the delivery is acknowledged, the consumer goes on. *)
C5_FaultContained ==
  Failed =>
    /\ ~Crashed
    /\ internal_error_queue = <<>>
    /\ Acks # {}

----------------------------------------------------------------------------
(* The life cycle of the current connection. *)
IsPrefix(a, b) == Len(a) <= Len(b) /\ \A i \in 1..Len(a) : a[i] = b[i]
Only(l, ops) == SelectSeq(l, LAMBDA e : e[1] \in ops)

(* The topology requests and their acknowledgment callbacks, then consume. *)
TopologyOps ==
  {"exchange_declare", "setup_queue", "queue_declare", "on_queue_declareok",
   "queue_bind", "on_bindok", "error_queue_declare", "on_error_queue_declareok",
   "basic_consume"}
TopologyOrder ==
  << Op3("exchange_declare", "ex", "passive", ""),
     Op("setup_queue"),
     Op3("queue_declare", "ex-bot", "durable", "not exclusive"),
     Op("on_queue_declareok"),
     Op3("queue_bind", "ex-bot", "ex", ""),
     Op("on_bindok"),
     Op3("error_queue_declare", "error-bot-ex", "durable", "not exclusive"),
     Op("on_error_queue_declareok"),
     Op3("basic_consume", "ex-bot", "", "") >>

(* From connect to consume on one connection. *)
SetupOrder ==
  << Op("connect"), Op("on_connection_open"), Op("add_on_close_callback"),
     Op("channel"), Op("on_channel_open"), Op3("basic_qos", "1", "", ""),
     Op("channel_add_on_close_callback"),
     TopologyOrder[1], TopologyOrder[2], TopologyOrder[3], TopologyOrder[4],
     TopologyOrder[5], TopologyOrder[6], TopologyOrder[7], TopologyOrder[8],
     Op("add_on_cancel_callback"), TopologyOrder[9] >>

(* C9: on every channel the passive exchange check, the queue declare, the
   bind with routing key "" and the error-queue declare are issued in this
   order, each from the acknowledgment callback of the one before, and
   consume only after the fourth acknowledgment; without all four
   acknowledgments the machine is not consuming. *)
C9_ConsumeAfterTopology ==
  /\ IsPrefix(Only(log, TopologyOps), TopologyOrder)
  /\ Has(log, "basic_consume") => Only(log, TopologyOps) = TopologyOrder
  /\ Consuming => /\ Has(log, "basic_consume")
                  /\ rpc = "none"
                  /\ channel = connection
  /\ rpc # "none" => ~Consuming /\ ~Has(log, "basic_consume")

C9_Witness ==
  Consuming /\ reconnects = 1 /\ Only(log, TopologyOps) = TopologyOrder

(* Closures, timeouts and reconnects, counted. *)
C6_State ==
  /\ reconnects <= closures
  /\ ~closing => reconnects + Len(timers) = closures
  /\ Len(timers) <= 1
  /\ \A i \in 1..Len(timers) :
       timers[i] = [delay |-> 5, callback |-> "reconnect"]
  /\ pc # "new" => connection = reconnects + 1
  /\ timers # <<>> => connState = "closed"
  /\ (Consuming /\ ~closing) =>
       /\ reconnects = closures
       /\ log = SetupOrder
       /\ channel = connection
       /\ consumer_tag = connection

C6_Step ==
  /\ reconnects' # reconnects =>
       /\ reconnects' = reconnects + 1
       /\ timers # <<>> /\ timers' = Tail(timers)
       /\ connection' = connection + 1
       /\ connState' = "opening" /\ chanState' = "none"
       /\ ~closing
  /\ closures' # closures =>
       /\ closures' = closures + 1
       /\ timers' = Append(timers, [delay |-> 5, callback |-> "reconnect"])
       /\ reconnects' = reconnects

(* C6: k unexpected closures with closing unset give exactly k reconnects,
   one per closure, each started by the firing of the fixed-delay timeout
   that closure scheduled; each reconnect makes a fresh connection on which
   channel open, prefetch and the whole topology run again before the
   machine consumes. *)
C6_OneReconnectPerClosure == [](C6_State) /\ [][C6_Step]_vars

C6_Witness ==
  Consuming /\ ~closing /\ closures = 3 /\ reconnects = 3 /\ connection = 4

(* on_channel_closed has run on the current connection. *)
ChannelClosedNotified == Has(log, "on_channel_closed")

C10_State ==
  /\ \A i \in 1..Len(log) :
       log[i][1] = "on_channel_closed" =>
         /\ i < Len(log) /\ log[i + 1][1] = "connection_close"
         /\ \A j \in (i + 1)..Len(log) : log[j][1] # "channel"
  /\ Count(log, "channel") <= 1
  /\ ChannelClosedNotified =>
       /\ connState \in {"closing", "closed"}
       /\ chanState = "closed"
       /\ ~Consuming
       /\ (connState = "closed" /\ ~closing) =>
            timers = <<[delay |-> 5, callback |-> "reconnect"]>>

(* C10: when the channel-closed notification fires the consumer closes the
   connection and opens no other channel on it; with closing unset the
   closure schedules a reconnect, which makes a new connection. *)
C10_ChannelClosedClosesConnection ==
  /\ [](C10_State)
  /\ (ChannelClosedNotified /\ ~closing) ~>
       (closing \/ (connState = "opening" /\ log = <<Op("connect")>>))

C10_Witness ==
  /\ ChannelClosedNotified /\ connState = "closing" /\ ~closing
  /\ reconnects = 1 /\ Has(log, "basic_consume")

(* stop() called while the machine was consuming, and the closed machine. *)
StoppedWhileConsuming == stopAt \in {"consuming", "acked", "publishing", "routed"}
Closed == pc = "stopped" /\ stopped /\ ioloop = "halted" /\ connState = "closed"

C7_State ==
  StoppedWhileConsuming =>
    /\ closing
    /\ Only(log, {"basic_cancel"}) = <<Op3("basic_cancel", ToString(connection), "", "")>>
    /\ consumer_tag = connection
    /\ Before(log, "basic_cancel", "on_cancelok")
    /\ Before(log, "on_cancelok", "channel_close")
    /\ Before(log, "on_channel_closed", "connection_close")
    /\ Before(log, "on_connection_closed", "ioloop_stop")
    /\ ioloop = "halted" <=> Has(log, "ioloop_stop")
    /\ stopped => ioloop = "halted"
    /\ timers = <<>> /\ ~Consuming

(* C7: stop() called while the machine is consuming sets closing and issues
   one cancel for the active consumer tag; the channel is closed only after
   cancel-ok, the connection only after the channel-closed notification,
   the ioloop is stopped only after the connection-closed notification and
   stopped is set only after the ioloop stopped; with the broker answering,
   the machine ends closed with stopped set. *)
C7_StopReachesClosed ==
  /\ [](C7_State)
  /\ StoppedWhileConsuming ~> Closed

C7_Witness ==
  /\ stopAt = "consuming" /\ Closed
  /\ Has(log, "on_cancelok") /\ Has(log, "channel_close")
  /\ connection = 2

(* stop() called inside on_message, and the outputs of its delivery. *)
StoppedInFlight == stopAt \in {"acked", "publishing", "routed"}
OutputsComplete ==
  \/ ErrorPublishes # {}
  \/ Returned /\ Len(Publishes) = Len(resp)

(* C8: when stop() is called while a delivery is in flight, that delivery's
   publishes or its error route are complete before the machine is closed,
   and no delivery is accepted after stop() was called. *)
C8_InFlightCompletesBeforeClosed ==
  StoppedInFlight =>
    /\ Closed => OutputsComplete
    /\ At("KeyboardInterrupt") # {}
    /\ msgpc = "idle"

----------------------------------------------------------------------------
(* The broker cancelled the consumer on the current connection. *)
Cancelled == Has(log, "on_consumer_cancelled")

C11_State ==
  /\ \A i \in 1..Len(log) :
       log[i][1] = "on_consumer_cancelled" =>
         /\ i < Len(log) /\ log[i + 1] = Op("channel_close")
         /\ \A j \in 1..(i - 1) : log[j][1] # "channel_close"
  /\ Cancelled =>
       /\ chanState \in {"closing", "closed"}
       /\ ~Consuming
       /\ Before(log, "basic_consume", "on_consumer_cancelled")
       /\ chanState = "closed" => Before(log, "on_channel_closed", "connection_close")

C11_Step ==
  Count(log', "on_consumer_cancelled") > Count(log, "on_consumer_cancelled") =>
    /\ Consuming /\ channel # 0
    /\ chanState' = "closing"
    /\ timers' = timers
    /\ connection' = connection /\ connState' = connState
    /\ reconnects' = reconnects /\ closures' = closures
    /\ ~Has(log', "add_timeout") /\ Count(log', "connect") = 1

(* C11: when the broker cancels the subscription of a consuming machine,
   on_consumer_cancelled at once asks for the channel to be closed; the
   handler itself schedules no reconnect timeout and opens no connection;
   the closure goes on through the channel-closed notification to the
   close of the connection. *)
C11_BrokerCancelClosesChannel ==
  /\ [](C11_State)
  /\ [][C11_Step]_vars
  /\ Cancelled ~> (Has(log, "on_channel_closed") /\ Has(log, "connection_close"))

C11_Witness ==
  /\ Cancelled /\ Has(log, "on_channel_closed") /\ connState = "closing"
  /\ ~closing /\ pc = "run_loop" /\ deliveries = 1

----------------------------------------------------------------------------
C12_State ==
  /\ Len(timers) <= 1
  /\ timers # <<>> => connState = "closed"
  /\ \A i \in 1..Len(log) :
       log[i][1] = "on_connection_closed" =>
         /\ i < Len(log)
         /\ log[i + 1][1] \in {"ioloop_stop", "add_timeout"}
  /\ Has(log, "ioloop_stop") => closing /\ ioloop = "halted"

C12_Step ==
  /\ closing =>
       /\ closing'
       /\ connection' = connection /\ reconnects' = reconnects
       /\ closures' = closures
       /\ Len(timers') <= Len(timers)
       /\ ~Has(log', "add_timeout") \/ Has(log, "add_timeout")
  /\ (closing /\ connState # "closed" /\ connState' = "closed") =>
       /\ ioloop' = "halted"
       /\ timers' = timers
       /\ log'[Len(log')] = Op("ioloop_stop")
       /\ log'[Len(log') - 1] = Op("on_connection_closed")
  /\ (closing /\ timers' # timers) =>
       /\ timers' = Tail(timers)
       /\ connState = "closed" /\ connState' = "closed"
       /\ ioloop' = "halted"
  /\ (closing /\ ioloop = "halted") =>
       /\ ioloop' = "halted"
       /\ connState' = connState /\ chanState' = chanState

(* C12: once closing is set no new connection is opened: a connection-closed
   notification with closing set stops the ioloop and schedules no reconnect
   timeout, and that is final; a reconnect timeout scheduled before closing
   was set opens no connection when it fires; at most one reconnect is
   pending or in progress at any time. *)
C12_NoConnectionOnceClosing == [](C12_State) /\ [][C12_Step]_vars

C12_Witness ==
  /\ closing /\ stopAt = "reconnecting" /\ Has(log, "reconnect")
  /\ ioloop = "halted" /\ timers = <<>>
  /\ connection = 2 /\ closures = 2 /\ reconnects = 1

----------------------------------------------------------------------------
(* The statistics block of on_message. *)
Averages == At("average")
Finishing ==
  /\ msgpc # "idle" /\ msgpc' = "idle"
  /\ Len(ev') > Len(ev) /\ ev'[Len(ev')].op = "timing"
HandlingTime(events) ==
  LET h == {i \in 1..Len(events) : events[i].op = "handling_time"}
  IN  events[CHOOSE i \in h : TRUE].tag

C13_State ==
  /\ (msgpc = "idle" /\ invocations % 100 = 0) => total_execution_time = 0
  /\ (msgpc # "idle" /\ invocations % 100 = 1) => total_execution_time = 0
  /\ (msgpc = "idle" /\ invocations % 100 = 1 /\ Timed) =>
       total_execution_time = HandlingTime(ev)
  /\ Averages # {} =>
       /\ Cardinality(Averages) = 1
       /\ invocations % 100 = 0 /\ invocations > 0
       /\ msgpc = "idle"
  /\ (msgpc = "idle" /\ invocations % 100 = 0 /\ invocations > 0) =>
       Averages # {}

C13_Step ==
  /\ Finishing =>
       /\ invocations' = invocations
       /\ Cardinality({i \in 1..Len(ev') : ev'[i].op = "handling_time"}) = 1
       /\ IF invocations % 100 = 0
            THEN /\ total_execution_time' = 0
                 /\ \E i \in 1..Len(ev') :
                      ev'[i] = Logged("average",
                                      (total_execution_time + HandlingTime(ev')) \div 100)
            ELSE /\ total_execution_time' =
                      total_execution_time + HandlingTime(ev')
                 /\ \A i \in 1..Len(ev') : ev'[i].op # "average"
  /\ ~Finishing => total_execution_time' = total_execution_time
  /\ invocations' # invocations =>
       /\ invocations' = invocations + 1
       /\ msgpc = "idle"

(* C13: at every invocation whose count is a multiple of 100 one average
   (the total handling time, this invocation's included, divided by 100) is
   logged and the total is 0 when the invocation ends, so that invocation
   101 accumulates from 0; at every other invocation no average is logged
   and the total is the sum of the handling times of the invocations since
   the last multiple of 100. *)
C13_RollingAverage == [](C13_State) /\ [][C13_Step]_vars

C13_Witness ==
  /\ invocations = 101 /\ msgpc = "idle" /\ Timed
  /\ total_execution_time = 1 /\ Averages = {}

----------------------------------------------------------------------------
C14_State ==
  /\ pc = "run_failed" =>
       /\ internal_error_queue = <<7>>
       /\ ioloop = "abandoned"
       /\ ~closing /\ ~stopped
       /\ connection = reconnects + 1
  /\ internal_error_queue # <<>> => pc = "run_failed"

C14_Step ==
  /\ pc = "run_failed" => vars' = vars
  /\ (pc # "run_failed" /\ pc' = "run_failed") =>
       /\ pc = "run_loop"
       /\ internal_error_queue' = Append(internal_error_queue, consumer_id)
       /\ connection' = connection /\ connState' = connState
       /\ timers' = timers

(* C14: when an exception other than KeyboardInterrupt and SystemExit leaves
   the ioloop that run() drives, run() puts the consumer's own id on the
   internal error queue exactly once and returns: it does not start the
   ioloop again and makes no new connection. *)
C14_RunReportsFailureOnce == [](C14_State) /\ [][C14_Step]_vars

C14_Witness ==
  /\ pc = "run_failed" /\ internal_error_queue = <<consumer_id>>
  /\ reconnects = 1 /\ deliveries = 2 /\ At("UnicodeDecodeError") # {}

----------------------------------------------------------------------------
(* The prefetch request of the current channel. *)
Prefetch == {i \in 1..Len(log) : log[i] = Op3("basic_qos", "1", "", "")}

C15_State ==
  /\ \A i \in 1..Len(log) :
       /\ log[i][1] \in TopologyOps => \E j \in Prefetch : j < i
       /\ log[i][1] = "on_channel_open" => (i + 1) \in Prefetch
       /\ log[i][1] = "basic_qos" => i \in Prefetch
  /\ Cardinality(Prefetch) <= 1
  /\ chanState = "open" => Cardinality(Prefetch) = 1
  /\ Consuming => Prefetch # {}
  /\ msgpc # "idle" => /\ msg.tag = deliveries
                        /\ Cardinality(Acks) = 1
                        /\ Prefetch # {}

C15_Step ==
  deliveries' # deliveries =>
    /\ deliveries' = deliveries + 1
    /\ msgpc = "idle"
    /\ Consuming /\ Prefetch # {}

(* C15: on every channel that opens, after a reconnect too, the prefetch
   count 1 is set before the first topology step and before consume, so
   that consume is never issued on a channel without prefetch 1, and at
   most one delivery is unacknowledged or being processed at any time. *)
C15_PrefetchOneBeforeConsume == [](C15_State) /\ [][C15_Step]_vars

C15_Witness ==
  /\ Consuming /\ reconnects = 2 /\ msgpc = "acked" /\ deliveries = 2
  /\ Has(log, "basic_consume")

----------------------------------------------------------------------------
(* The threads that are inside ioloop.start() of the consumer's connection. *)
Drivers ==
  {t \in {"run", "total_stop"} :
     \/ t = "run" /\ pc \in {"run_loop", "stop_loop"} /\ ioloop = "running"
     \/ t = "total_stop" /\ caller = "stop_loop" /\ ioloop = "running"}

(* C16: no two steps of one consumer run at the same time: every step, a
   stop asked for through total_stop() of the thread variant included, runs
   on the one thread that drives the ioloop, so that closing, the channel
   and the ioloop are never used by two threads at once. *)
C16_SingleLoopThread == Cardinality(Drivers) <= 1

----------------------------------------------------------------------------
(* A cancel issued on the current connection that names a tag names the
   tag of this connection's consume. *)
CancelsOwnTag ==
  \A i \in 1..Len(log) :
    (log[i][1] = "basic_cancel" /\ log[i][2] # "0") =>
      /\ log[i][2] = ToString(connection)
      /\ \E j \in 1..(i - 1) : log[j][1] = "basic_consume"

(* C17: a consumer tag is held only from a successful consume to the next
   cancel-ok or channel closure: after cancel-ok and after the channel
   closed the consumer holds no tag, and no tag of a closed channel or of an
   earlier connection is kept or used for a later cancel. *)
C17_TagOnlyWhileSubscribed ==
  /\ consumer_tag # 0 =>
       /\ channel = consumer_tag
       /\ consumer_tag = connection
       /\ chanState \in {"open", "closing"}
       /\ Has(log, "basic_consume")
       /\ ~Has(log, "on_cancelok")
  /\ CancelsOwnTag

----------------------------------------------------------------------------
(* C18: every outbound message is published to the exchange and the routing
   key it names; a message without "exchange" goes to the consumer's own
   exchange, a message without "queue" to the consumer's own queue name
   (exchange-botId), either default applying whether or not the other key
   is there; each published message counts message.publish once. *)
C18_OutboundRouting ==
  (Handed /\ Returned) =>
    /\ Len(Publishes) = sent
    /\ \A i \in 1..Len(Publishes) :
         /\ Publishes[i].exchange =
              (IF resp[i].exchange = "<absent>" THEN "ex" ELSE resp[i].exchange)
         /\ Publishes[i].routing_key =
              (IF resp[i].queue = "<absent>" THEN "ex-bot" ELSE resp[i].queue)
         /\ Publishes[i].body = resp[i].body
    /\ Cardinality(Metric("message.publish")) = Len(Publishes)
    /\ Cardinality(At("basic_publish")) = Len(Publishes)

C18_Witness ==
  /\ Ended /\ Timed /\ msg.outcome = "seq"
  /\ resp = << [exchange |-> "ex3", queue |-> "<absent>", body |-> "r3"],
               [exchange |-> "<absent>", queue |-> "q4", body |-> "r4"] >>
  /\ Len(Publishes) = 2

----------------------------------------------------------------------------
(* stop() called with a connection and no channel held: while the
   connection or its channel was opening, or while a reconnect was pending. *)
StoppedBeforeChannel == stopAt \in {"opening", "reconnecting"}

(* C19: when stop() is called while a connection exists and no channel is
   held yet, the machine still ends closed and stop() returns, and meanwhile
   it issues no consume and handles no delivery with closing set. *)
C19_StopBeforeChannelHeld ==
  StoppedBeforeChannel =>
    /\ closing
    /\ ~Consuming
    /\ msgpc = "idle"
    /\ pc = "stopped" => Closed

----------------------------------------------------------------------------
(* Requests made of a channel, and what ends one. *)
ChannelOps == {"basic_cancel", "channel_close", "basic_consume", "basic_qos"}
ChannelEnds == {"channel_close", "on_channel_closed"}

(* C20: no channel operation (ack, publish, cancel, close) is issued on a
   channel that is closed or that was asked to close: not by a stop() after
   a broker cancel, not by a stop() between the channel-closed and the
   connection-closed notification, not by a cancel-ok after a broker
   cancel. *)
C20_NoOperationOnDeadChannel ==
  /\ deadOps = {}
  /\ \A i \in 1..Len(log) :
       log[i][1] \in ChannelEnds =>
         \A j \in (i + 1)..Len(log) : log[j][1] \notin ChannelOps
  /\ msgpc # "idle" => connState = "open" /\ chanState = "open"

----------------------------------------------------------------------------
(* C21: the outputs of one delivery are exclusive: either the handler's
   messages are published and nothing goes to the error queue, or the raw
   body goes to the error queue and none of the handler's messages was
   published; a failure while publishing the k-th of N messages does not
   leave the first k-1 published next to an error-queue copy. *)
C21_OutputsExclusive ==
  Handed => ~(Len(Publishes) > 0 /\ ErrorPublishes # {})

====
